---- MODULE Spec2Model ----
(***************************************************************************)
(* Model of re-kindle: the note attachment of clip_utils.py, the span      *)
(* locator and match orchestrator of re_kindle.py and the window aligner   *)
(* and tag injector of utils.py.                                           *)
(*                                                                         *)
(* A Python str is a sequence of one-character strings.  The code indexes  *)
(* from 0; At and Slice keep the code's indices.                           *)
(***************************************************************************)
EXTENDS Integers, Sequences, FiniteSets, TLC

VARIABLES
    pc,            \* which function is running and where it stands
    args,          \* the arguments of the function under check
    ret,           \* its return value ("running" until it returns)
    parsed_clips,  \* parse_txt_clippings: highlights sorted by date
    parsed_notes,  \* parse_txt_clippings: notes sorted by date
    note_ix,       \* parse_txt_clippings: notes processed so far
    log,           \* the log list of the running function
    spine,         \* the ordered documents; a document is its <p> texts
    item_content,  \* process_book: each document's content, a list of the
                   \* markup of its <p> elements, as set_content left it
    clippings,     \* find_matches: the highlights to locate
    clip_ix,       \* find_matches: clippings processed so far
    matches,       \* find_matches: the Match records appended so far
    tag_ix,        \* matches handed to create_highlighted_tags so far
    new_tags       \* what create_highlighted_tags gave for each of them

vars == <<pc, args, ret, parsed_clips, parsed_notes, note_ix, log,
          spine, item_content, clippings, clip_ix, matches, tag_ix, new_tags>>

(***************************************************************************)
(* Bounds of the checked input sets.                                       *)
(***************************************************************************)
MaxRawLen == 6
MaxTargetLen == 3

MaxBlocks == 3
MaxBlockLen == 2
MaxQueryLen == 3

MaxAllClips == 3
MaxDate == 2

MaxDocs == 2
MaxPars == 2
MaxSpineChars == 4
MaxClipLen == 4
MaxMarkupChars == 3
MaxMarkupClips == 2
MaxBookClips == 1
MaxSharedChars == 3
MaxSharedClips == 2

AlignChars == {"a", "b", "x"}

\* paragraph text of a book: a letter, the letter of the tag name, a space
BookChars == {"a", "p", " "}

\* paragraph text with a character that markup escapes
MarkupChars == {"a", "<"}

Titles == {"T1", "T2"}

\* a highlight's location is [start, end], a note's is [location]
HighlightLocations == {<<1, 5>>, <<1, 6>>}

NoteLocations == {<<5>>, <<6>>}

SpanChars == {"a", " "}

(***************************************************************************)
(* Python str and list primitives.                                         *)
(***************************************************************************)
None == "None"

Min(a, b) == IF a < b THEN a ELSE b

Max(a, b) == IF a > b THEN a ELSE b

At(s, i) == s[i + 1]

\* s[a:b] for 0 <= a: the end is clamped, an empty range gives "".
Slice(s, a, b) == SubSeq(s, a + 1, Min(b, Len(s)))

StringsUpTo(chars, n) == UNION {[1..k -> chars] : k \in 0..n}

\* sub in s
IsSubstringAt(sub, s, p) ==
    /\ p + Len(sub) <= Len(s)
    /\ \A q \in 1..Len(sub) : s[p + q] = sub[q]

Contains(s, sub) == \E p \in 0..Len(s) : IsSubstringAt(sub, s, p)

\* s.find(sub): the lowest index, -1 when absent
Find(s, sub) ==
    IF Contains(s, sub)
    THEN CHOOSE p \in 0..Len(s) :
            /\ IsSubstringAt(sub, s, p)
            /\ \A q \in 0..(p - 1) : ~IsSubstringAt(sub, s, q)
    ELSE -1

RECURSIVE Join(_)
Join(parts) == IF parts = <<>> THEN <<>> ELSE Head(parts) \o Join(Tail(parts))

(***************************************************************************)
(* utils.min_window_subsequence                                            *)
(***************************************************************************)
Inf == -2

NoStart == -1

ShorterOrEqualWindow(len, min_len) == min_len = Inf \/ len <= min_len

\* end - k < min_len, min_len starting at float("inf")
ShorterWindow(len, min_len) == min_len = Inf \/ len < min_len

\* the inner while k < m: advance k until t is matched or s ends
RECURSIVE ForwardScan(_, _, _, _)
ForwardScan(s, t, k, j) ==
    IF k >= Len(s) THEN [k |-> k, j |-> j]
    ELSE IF At(s, k) = At(t, j)
         THEN IF j + 1 = Len(t) THEN [k |-> k, j |-> j + 1]
              ELSE ForwardScan(s, t, k + 1, j + 1)
         ELSE ForwardScan(s, t, k + 1, j)

\* while k >= i: walk back from end matching t in reverse
RECURSIVE Backtrack(_, _, _, _, _)
Backtrack(s, t, i, k, j) ==
    IF k < i THEN k
    ELSE IF At(s, k) = At(t, j)
         THEN IF j - 1 < 0 THEN k
              ELSE Backtrack(s, t, i, k - 1, j - 1)
         ELSE Backtrack(s, t, i, k - 1, j)

\* the outer while i < m, carrying min_len and start_idx
RECURSIVE WindowScan(_, _, _, _, _)
WindowScan(s, t, i, min_len, start_idx) ==
    IF i >= Len(s) THEN [min_len |-> min_len, start_idx |-> start_idx]
    ELSE IF At(s, i) = At(t, 0)
         THEN LET f == ForwardScan(s, t, i, 0) IN
              IF f.j = Len(t)
              THEN LET end == f.k
                       k == Backtrack(s, t, i, end, f.j - 1)
                       better == ShorterWindow(end - k, min_len)
                   IN  WindowScan(s, t, k + 1,
                                  IF better THEN end - k ELSE min_len,
                                  IF better THEN k + 1 ELSE start_idx)
              ELSE WindowScan(s, t, i + 1, min_len, start_idx)
         ELSE WindowScan(s, t, i + 1, min_len, start_idx)

min_window_subsequence(s, t) ==
    LET w == WindowScan(s, t, 0, Inf, NoStart) IN
    IF w.start_idx # NoStart
    THEN Slice(s, w.start_idx - 1, w.start_idx + w.min_len)
    ELSE <<>>

(***************************************************************************)
(* utils.normalize_str: re.sub(r"\s+", " ", s).strip()                     *)
(***************************************************************************)
WhiteSpace == {" ", "\t", "\n"}

\* every run of whitespace becomes one space
RECURSIVE SubWhiteSpace(_, _)
SubWhiteSpace(s, in_run) ==
    IF s = <<>> THEN <<>>
    ELSE IF Head(s) \in WhiteSpace
         THEN (IF in_run THEN <<>> ELSE <<" ">>) \o SubWhiteSpace(Tail(s), TRUE)
         ELSE <<Head(s)>> \o SubWhiteSpace(Tail(s), FALSE)

RECURSIVE LStrip(_)
LStrip(s) ==
    IF s # <<>> /\ Head(s) \in WhiteSpace THEN LStrip(Tail(s)) ELSE s

RECURSIVE RStrip(_)
RStrip(s) ==
    IF s # <<>> /\ s[Len(s)] \in WhiteSpace
    THEN RStrip(SubSeq(s, 1, Len(s) - 1))
    ELSE s

Strip(s) == RStrip(LStrip(s))

normalize_str(s) == Strip(SubWhiteSpace(s, FALSE))

(***************************************************************************)
(* re_kindle.find_text_spans; elements are the blocks' get_text() strings  *)
(***************************************************************************)
\* the for loop building combined and the (start, end) of every block
RECURSIVE CombineTexts(_, _, _)
CombineTexts(texts, combined, spans) ==
    IF texts = <<>> THEN [combined |-> combined, spans |-> spans]
    ELSE LET sep == IF combined # <<>> THEN combined \o <<" ">> ELSE combined
             start == Len(sep)
             joined == sep \o Head(texts)
         IN  CombineTexts(Tail(texts), joined, Append(spans, <<start, Len(joined)>>))

SkipBlockStrict(end, start_pos) == end < start_pos

\* if end <= start_pos: continue
SkipBlock(end, start_pos) == end <= start_pos

\* the for loop over spans with its continue and break; i counts from 0
RECURSIVE MatchedIndices(_, _, _, _)
MatchedIndices(spans, i, start_pos, end_pos) ==
    IF i >= Len(spans) THEN <<>>
    ELSE LET start == At(spans, i)[1]
             end == At(spans, i)[2]
         IN  IF SkipBlock(end, start_pos)
             THEN MatchedIndices(spans, i + 1, start_pos, end_pos)
             ELSE IF start >= end_pos THEN <<>>
             ELSE <<i>> \o MatchedIndices(spans, i + 1, start_pos, end_pos)

find_text_spans(elements, query) ==
    LET norm_query == normalize_str(query)
        full_texts == [i \in DOMAIN elements |-> normalize_str(elements[i])]
        c == CombineTexts(full_texts, <<>>, <<>>)
        start_pos == Find(c.combined, norm_query)
    IN  IF start_pos = -1 THEN None
        ELSE MatchedIndices(c.spans, 0, start_pos, start_pos + Len(norm_query))

(***************************************************************************)
(* clip_utils.parse_txt_clippings, from the parsed Clipping objects on     *)
(***************************************************************************)
\* Clipping.__init__: note starts as None
Clipping(type, title, location, date, content) ==
    [type |-> type, title |-> title, location |-> location, date |-> date,
     content |-> content, note |-> None]

\* sorted(..., key=lambda c: c.date) is stable: equal dates keep file order
RECURSIVE InsertByDate(_, _)
InsertByDate(sorted, c) ==
    IF sorted = <<>> THEN <<c>>
    ELSE IF Head(sorted).date <= c.date
         THEN <<Head(sorted)>> \o InsertByDate(Tail(sorted), c)
         ELSE <<c>> \o sorted

RECURSIVE SortedByDate(_)
SortedByDate(cs) ==
    IF cs = <<>> THEN <<>>
    ELSE InsertByDate(SortedByDate(SubSeq(cs, 1, Len(cs) - 1)), cs[Len(cs)])

IsHighlight(c) == c.type = "highlight"

IsNote(c) == c.type = "note"

\* clip.title == note.title and clip.location[-1] == note.location[0]
NoteMatches(clip, note) ==
    /\ clip.title = note.title
    /\ clip.location[Len(clip.location)] = note.location[1]

FirstMatching(clips, note, i) ==
    IF \E h \in 1..i : NoteMatches(clips[h], note)
    THEN CHOOSE h \in 1..i :
            /\ NoteMatches(clips[h], note)
            /\ \A g \in 1..(h - 1) : ~NoteMatches(clips[g], note)
    ELSE 0

\* for clip in reversed(parsed_clips): the index of the clip the loop breaks
\* on, 0 when it runs to the end
RECURSIVE LatestMatching(_, _, _)
LatestMatching(clips, note, i) ==
    IF i = 0 THEN 0
    ELSE IF NoteMatches(clips[i], note) THEN i
    ELSE LatestMatching(clips, note, i - 1)

\* the line appended to log after the inner loop
UnmatchedLine(note) ==
    [line |-> "Note could not be matched", content |-> note.content,
     location |-> note.location]

(***************************************************************************)
(* utils.normalize_whitespace                                              *)
(***************************************************************************)
\* the characters of unicode_whitespace, by name
UnicodeWhiteSpace == {"NBSP", "OGHAM SPACE", "MONGOLIAN VOWEL SEPARATOR",
                      "EN QUAD", "THIN SPACE", "NARROW NBSP",
                      "MEDIUM MATHEMATICAL SPACE", "IDEOGRAPHIC SPACE", "BOM"}

normalize_whitespace(s) ==
    [i \in DOMAIN s |-> IF s[i] \in UnicodeWhiteSpace THEN " " ELSE s[i]]

(***************************************************************************)
(* What BeautifulSoup gives for a document whose body is a run of <p>      *)
(* elements holding text: a document is the sequence of its <p> texts.     *)
(***************************************************************************)
\* str(tag) writes text with the minimal formatter: & < > become entities
EntityOf(c) ==
    CASE c = "<" -> <<"&", "l", "t", ";">>
      [] c = ">" -> <<"&", "g", "t", ";">>
      [] c = "&" -> <<"&", "a", "m", "p", ";">>
      [] OTHER -> <<c>>

RECURSIVE Escaped(_)
Escaped(text) ==
    IF text = <<>> THEN <<>> ELSE EntityOf(Head(text)) \o Escaped(Tail(text))

\* str(pars[i])
TagStr(text) == <<"<", "p", ">">> \o Escaped(text) \o <<"<", "/", "p", ">">>

\* soup.get_text()
GetText(pars) == Join(pars)

\* "".join(s.split(" "))
RemoveSpaces(s) == SelectSeq(s, LAMBDA c : c # " ")

(***************************************************************************)
(* re_kindle.find_clip_in_spine                                            *)
(***************************************************************************)
Match(clip, spine_ix, matched_tag_indices, all_tag_str, pre_highlight) ==
    [clip |-> clip, spine_ix |-> spine_ix,
     matched_tag_indices |-> matched_tag_indices,
     all_tag_str |-> all_tag_str, pre_highlight |-> pre_highlight]

\* find_clip_in_spine returning None
NoMatch == [match |-> None]

\* the scan over spine[start_from:] up to the raw span handed to the aligner:
\* NoMatch, or the document, its blocks and all_tag_str
RECURSIVE LocateRawSpan(_, _, _)
LocateRawSpan(clip, docs, item_ix) ==
    IF item_ix >= Len(docs) THEN NoMatch
    ELSE LET pars == At(docs, item_ix)
             clean_soup == normalize_str(GetText(pars))
             nospace_soup == RemoveSpaces(clean_soup)
         IN  IF Contains(nospace_soup, RemoveSpaces(clip.content))
             THEN LET matched_tag_indices == find_text_spans(pars, clip.content) IN
                  IF matched_tag_indices = None THEN NoMatch
                  ELSE [spine_ix |-> item_ix,
                        matched_tag_indices |-> matched_tag_indices,
                        all_tag_str |-> normalize_whitespace(
                            Join([n \in DOMAIN matched_tag_indices |->
                                    TagStr(At(pars, matched_tag_indices[n]))]))]
             ELSE LocateRawSpan(clip, docs, item_ix + 1)

find_clip_in_spine(clip, docs) ==
    LET located == LocateRawSpan(clip, docs, 0) IN
    IF located = NoMatch THEN NoMatch
    ELSE Match(clip, located.spine_ix, located.matched_tag_indices,
               located.all_tag_str,
               min_window_subsequence(located.all_tag_str,
                                      RemoveSpaces(clip.content)))

\* the two log lines of find_matches
NotFoundLine(clip_content) == [found |-> FALSE, content |-> clip_content]

FoundLine(clip_content, spine_ix) ==
    [found |-> TRUE, content |-> clip_content, spine_ix |-> spine_ix]

(***************************************************************************)
(* utils.split_raw_html_on_pars                                            *)
(***************************************************************************)
CloseP == <<"<", "/", "p", ">">>

OpenP == <<"<", "p">>

StartsWith(s, prefix) == IsSubstringAt(prefix, s, 0)

EndsWith(s, suffix) ==
    Len(suffix) <= Len(s) /\ IsSubstringAt(suffix, s, Len(s) - Len(suffix))

\* the length of the match of (</p>|<p[^>]*>) at p, 0 when there is none
DelimiterAt(s, p) ==
    IF IsSubstringAt(CloseP, s, p) THEN Len(CloseP)
    ELSE IF IsSubstringAt(OpenP, s, p)
            /\ \E q \in (p + 2)..(Len(s) - 1) : At(s, q) = ">"
         THEN (CHOOSE q \in (p + 2)..(Len(s) - 1) :
                  /\ At(s, q) = ">"
                  /\ \A r \in (p + 2)..(q - 1) : At(s, r) # ">") - p + 1
         ELSE 0

\* re.split with the delimiters kept
RECURSIVE ReSplit(_, _, _)
ReSplit(s, p, chunk_start) ==
    IF p >= Len(s) THEN <<Slice(s, chunk_start, Len(s))>>
    ELSE LET d == DelimiterAt(s, p) IN
         IF d > 0
         THEN <<Slice(s, chunk_start, p), Slice(s, p, p + d)>>
                  \o ReSplit(s, p + d, p + d)
         ELSE ReSplit(s, p + 1, chunk_start)

split_raw_html_on_pars(html) ==
    SelectSeq(ReSplit(html, 0, 0), LAMBDA part : Strip(part) # <<>>)

(***************************************************************************)
(* utils.create_highlighted_tags                                           *)
(***************************************************************************)
HIGHLIGHT_HEAD == <<"<", "m", "a", "r", "k", " ", "s", "t", "y", "l", "e", "=", "\"", "b", "a", "c", "k", "g", "r", "o", "u", "n", "d", "-", "c", "o", "l", "o", "r", ":", " ", "y", "e", "l", "l", "o", "w", ";", "\"", ">">>

HIGHLIGHT_TAIL == <<"<", "/", "m", "a", "r", "k", ">">>

\* str.split(sep) for a non-empty sep
RECURSIVE PySplit(_, _)
PySplit(s, sep) ==
    LET p == Find(s, sep) IN
    IF p = -1 THEN <<s>>
    ELSE <<Slice(s, 0, p)>> \o PySplit(Slice(s, p + Len(sep), Len(s)), sep)

\* the for loop over html_tags building to_insert; i counts from 0
RECURSIVE ToInsert(_, _)
ToInsert(html_tags, i) ==
    IF i >= Len(html_tags) THEN <<>>
    ELSE LET part == At(html_tags, i)
             here ==
                IF i = 0
                THEN IF StartsWith(part, OpenP) \/ StartsWith(part, CloseP)
                     THEN <<>>
                     ELSE <<<<i, HIGHLIGHT_HEAD>>>>
                ELSE IF StartsWith(part, CloseP)
                     THEN <<<<i, HIGHLIGHT_TAIL>>>>
                     ELSE IF StartsWith(part, OpenP)
                             /\ EndsWith(At(html_tags, i - 1), CloseP)
                          THEN <<<<i + 1, HIGHLIGHT_HEAD>>>>
                          ELSE <<>>
         IN  here \o ToInsert(html_tags, i + 1)

\* if not (html_tags[-1].startswith("</p") or html_tags[-1].startswith("<p"))
LastIsChunk(html_tags) ==
    LET last == html_tags[Len(html_tags)] IN
    ~(StartsWith(last, <<"<", "/", "p">>) \/ StartsWith(last, OpenP))

CountOf(to_insert, tag) ==
    Cardinality({n \in DOMAIN to_insert : to_insert[n][2] = tag})

\* list.insert(index, x): an index past the end appends
ListInsert(list, index, x) ==
    LET at == Min(index, Len(list)) IN
    SubSeq(list, 1, at) \o <<x>> \o SubSeq(list, at + 1, Len(list))

\* for offset, (i, tag) in enumerate(to_insert): html_tags.insert(offset + i, tag)
RECURSIVE InsertAll(_, _, _)
InsertAll(html_tags, to_insert, offset) ==
    IF offset >= Len(to_insert) THEN html_tags
    ELSE InsertAll(ListInsert(html_tags, offset + At(to_insert, offset)[1],
                              At(to_insert, offset)[2]),
                   to_insert, offset + 1)

NoteTag(note) == <<"<span class=\"note\"> [R.N.: ", note, "] </span>">>

Raised(exception) == [raised |-> exception]

\* the function up to the string handed to BeautifulSoup: either the
\* exception it raises, or html_tags after the insertions and that string
create_highlighted_tags(match) ==
    IF match.pre_highlight = <<>> THEN Raised("ValueError: empty separator")
    ELSE
    LET halves == PySplit(match.all_tag_str, match.pre_highlight) IN
    IF Len(halves) # 2 THEN Raised("ValueError: unpack")
    ELSE
    LET prefix == halves[1]
        suffix == halves[2]
        html_tags == split_raw_html_on_pars(match.pre_highlight)
    IN
    IF html_tags = <<>> THEN Raised("IndexError")
    ELSE
    LET walked == ToInsert(html_tags, 0)
        to_insert == IF LastIsChunk(html_tags)
                     THEN Append(walked, <<Len(html_tags), HIGHLIGHT_TAIL>>)
                     ELSE walked
        head_count == CountOf(to_insert, HIGHLIGHT_HEAD)
        tail_count == CountOf(to_insert, HIGHLIGHT_TAIL)
    IN
    IF head_count # tail_count THEN Raised("AssertionError")
    ELSE
    LET inserted == InsertAll(html_tags, to_insert, 0)
        noted == IF match.clip.note # None
                 THEN Append(inserted, NoteTag(match.clip.note))
                 ELSE inserted
    IN  [raised |-> None, html_tags |-> noted,
         html |-> prefix \o Join(noted) \o suffix]

(***************************************************************************)
(* Idle values of the state a specification does not use.                  *)
(***************************************************************************)
IdleNotes ==
    /\ parsed_clips = <<>>
    /\ parsed_notes = <<>>
    /\ note_ix = 0

IdleBook ==
    /\ spine = <<>>
    /\ item_content = <<>>
    /\ clippings = <<>>
    /\ clip_ix = 0
    /\ matches = <<>>
    /\ tag_ix = 0
    /\ new_tags = <<>>

(***************************************************************************)
(* SpecAlign: min_window_subsequence over every raw string and target of   *)
(* the bounded sets.                                                       *)
(***************************************************************************)
InitAlign ==
    /\ pc = "min_window_subsequence"
    /\ \E s \in StringsUpTo(AlignChars, MaxRawLen),
          t \in StringsUpTo(AlignChars, MaxTargetLen) \ {<<>>} :
            args = [s |-> s, t |-> t]
    /\ ret = "running"
    /\ log = <<>>
    /\ IdleNotes
    /\ IdleBook

Align ==
    /\ pc = "min_window_subsequence"
    /\ ret' = min_window_subsequence(args.s, args.t)
    /\ pc' = "returned"
    /\ UNCHANGED <<args, parsed_clips, parsed_notes, note_ix, log, spine, item_content,
                   clippings, clip_ix, matches, tag_ix, new_tags>>

NextAlign == Align

SpecAlign == InitAlign /\ [][NextAlign]_vars

(***************************************************************************)
(* SpecSpans: find_text_spans over every block list and query of the       *)
(* bounded sets.                                                           *)
(***************************************************************************)
SeqsUpTo(S, n) == UNION {[1..k -> S] : k \in 0..n}

InitSpans ==
    /\ pc = "find_text_spans"
    /\ \E e \in SeqsUpTo(StringsUpTo(SpanChars, MaxBlockLen), MaxBlocks),
          q \in StringsUpTo(SpanChars, MaxQueryLen) :
            args = [elements |-> e, query |-> q]
    /\ ret = "running"
    /\ log = <<>>
    /\ IdleNotes
    /\ IdleBook

LocateSpans ==
    /\ pc = "find_text_spans"
    /\ ret' = find_text_spans(args.elements, args.query)
    /\ pc' = "returned"
    /\ UNCHANGED <<args, parsed_clips, parsed_notes, note_ix, log, spine, item_content,
                   clippings, clip_ix, matches, tag_ix, new_tags>>

NextSpans == LocateSpans

SpecSpans == InitSpans /\ [][NextSpans]_vars

(***************************************************************************)
(* SpecNotes: parse_txt_clippings over every list of parsed clippings of   *)
(* the bounded sets.  A clipping's content is its position in the file.    *)
(***************************************************************************)
ClipKinds ==
    {[type |-> "highlight", title |-> t, location |-> l, date |-> d] :
        t \in Titles, l \in HighlightLocations, d \in 1..MaxDate}
    \cup
    {[type |-> "note", title |-> t, location |-> l, date |-> d] :
        t \in Titles, l \in NoteLocations, d \in 1..MaxDate}

AllClipsOf(kinds) ==
    [i \in DOMAIN kinds |->
        Clipping(kinds[i].type, kinds[i].title, kinds[i].location,
                 kinds[i].date, ToString(i))]

\* the state when the note loop is entered
InitNotes ==
    /\ pc = "parse_txt_clippings"
    /\ \E kinds \in SeqsUpTo(ClipKinds, MaxAllClips) :
          /\ args = [all_clips |-> AllClipsOf(kinds)]
          /\ parsed_clips = SortedByDate(SelectSeq(AllClipsOf(kinds), IsHighlight))
          /\ parsed_notes = SortedByDate(SelectSeq(AllClipsOf(kinds), IsNote))
    /\ note_ix = 0
    /\ log = <<>>
    /\ ret = "running"
    /\ IdleBook

\* one pass of for note in parsed_notes
AttachNote ==
    /\ pc = "parse_txt_clippings"
    /\ note_ix < Len(parsed_notes)
    /\ LET note == parsed_notes[note_ix + 1]
           h == LatestMatching(parsed_clips, note, Len(parsed_clips))
       IN  /\ parsed_clips' = IF h = 0 THEN parsed_clips
                              ELSE [parsed_clips EXCEPT ![h].note = note.content]
           /\ log' = Append(log, UnmatchedLine(note))
    /\ note_ix' = note_ix + 1
    /\ UNCHANGED <<pc, args, ret, parsed_notes, spine, item_content, clippings, clip_ix,
                   matches, tag_ix, new_tags>>

ReturnParsedClips ==
    /\ pc = "parse_txt_clippings"
    /\ note_ix = Len(parsed_notes)
    /\ ret' = parsed_clips
    /\ pc' = "returned"
    /\ UNCHANGED <<args, parsed_clips, parsed_notes, note_ix, log, spine, item_content,
                   clippings, clip_ix, matches, tag_ix, new_tags>>

NextNotes == AttachNote \/ ReturnParsedClips

SpecNotes == InitNotes /\ [][NextNotes]_vars

(***************************************************************************)
(* Spec: find_matches over a spine and a list of highlights, then the loop  *)
(* of process_book that injects every Match in order.  Three families of   *)
(* books: plain text in up to MaxDocs documents with MaxBookClips          *)
(* highlights, one paragraph of text that holds "<", and one document of   *)
(* plain text with up to MaxSharedClips highlights.                        *)
(***************************************************************************)
\* the spine whose text is txt, cut before character n + 1 as cuts[n] says
RECURSIVE CutSpine(_, _, _)
CutSpine(txt, cuts, n) ==
    IF n = 1 THEN <<<<<<txt[1]>>>>>>
    ELSE LET docs == CutSpine(txt, cuts, n - 1)
             doc == docs[Len(docs)]
         IN  CASE cuts[n - 1] = "doc" -> Append(docs, <<<<txt[n]>>>>)
               [] cuts[n - 1] = "p" ->
                    [docs EXCEPT ![Len(docs)] = Append(doc, <<txt[n]>>)]
               [] OTHER ->
                    [docs EXCEPT ![Len(docs)] =
                        [doc EXCEPT ![Len(doc)] = Append(doc[Len(doc)], txt[n])]]

Spines(chars, max_docs, max_chars) ==
    {sp \in UNION {{CutSpine(txt, cuts, Len(txt)) :
                        cuts \in [1..(Len(txt) - 1) -> {"", "p", "doc"}]} :
                   txt \in StringsUpTo(chars, max_chars) \ {<<>>}} :
        /\ Len(sp) <= max_docs
        /\ \A d \in DOMAIN sp : Len(sp[d]) <= MaxPars}

\* what a clippings file holds after line.strip(): no blank at either end
Contents(chars, max_len) ==
    {c \in StringsUpTo(chars, max_len) : c # <<>> /\ Strip(c) = c}

Highlight(content) == Clipping("highlight", "T1", <<1, 5>>, 1, content)

InitBook(chars, max_docs, max_chars, max_clips, max_clip_len) ==
    /\ pc = "find_matches"
    /\ spine \in Spines(chars, max_docs, max_chars)
    /\ item_content = [d \in DOMAIN spine |->
                          [i \in DOMAIN spine[d] |-> TagStr(spine[d][i])]]
    /\ \E cs \in SeqsUpTo(Contents(chars, max_clip_len), max_clips) \ {<<>>} :
          clippings = [i \in DOMAIN cs |-> Highlight(cs[i])]
    /\ clip_ix = 0
    /\ matches = <<>>
    /\ log = <<>>
    /\ tag_ix = 0
    /\ new_tags = <<>>
    /\ args = <<>>
    /\ ret = "running"
    /\ IdleNotes

Init ==
    \/ InitBook(BookChars, MaxDocs, MaxSpineChars, MaxBookClips, MaxClipLen)
    \/ InitBook(MarkupChars, 1, MaxMarkupChars, MaxMarkupClips, MaxMarkupChars)
    \/ InitBook(BookChars, 1, MaxSharedChars, MaxSharedClips, MaxClipLen)

\* one pass of for clip_ix in range(len(clippings))
FindMatch ==
    /\ pc = "find_matches"
    /\ clip_ix < Len(clippings)
    /\ LET clip == At(clippings, clip_ix)
           clip_content == normalize_str(clip.content)
           match == find_clip_in_spine(clip, spine)
       IN  IF match = NoMatch
           THEN /\ log' = Append(log, NotFoundLine(clip_content))
                /\ matches' = matches
           ELSE /\ log' = Append(log, FoundLine(clip_content, match.spine_ix))
                /\ matches' = Append(matches, match)
    /\ clip_ix' = clip_ix + 1
    /\ UNCHANGED <<pc, args, ret, parsed_clips, parsed_notes, note_ix, spine, item_content,
                   clippings, tag_ix, new_tags>>

\* find_matches writes the log and returns matches
ReturnMatches ==
    /\ pc = "find_matches"
    /\ clip_ix = Len(clippings)
    /\ pc' = "apply"
    /\ UNCHANGED <<args, ret, parsed_clips, parsed_notes, note_ix, log, spine, item_content,
                   clippings, clip_ix, matches, tag_ix, new_tags>>

\* position p (from 0) of a raw span lies inside a <...> tag
InTag(raw, p) ==
    \E q \in 0..p :
        /\ At(raw, q) = "<"
        /\ \A r \in q..(p - 1) : At(raw, r) # ">"

\* the markup cut after every </p>: the <p> elements of markup in which
\* every <p> is closed and none is nested
CutPars(html) ==
    LET ends == {p \in 0..Len(html) : IsSubstringAt(CloseP, html, p)}
        EndOf(k) == CHOOSE p \in ends : Cardinality({q \in ends : q < p}) = k - 1
    IN  [k \in 1..Cardinality(ends) |->
            Slice(html,
                  IF k = 1 THEN 0 ELSE EndOf(k - 1) + Len(CloseP),
                  EndOf(k) + Len(CloseP))]

\* new_soup.find_all("p") on prefix + "".join(html_tags) + suffix.  A
\* window that starts and ends outside the tags leaves the markup
\* well-formed and the elements are its <p>...</p>.  For a window cut
\* inside a tag the code does not fix what html.parser repairs the string
\* to: it may find no <p> at all, or elements holding the repaired text.
FindAllP(match, html) ==
    LET first == Len(PySplit(match.all_tag_str, match.pre_highlight)[1])
        last == first + Len(match.pre_highlight) - 1
    IN  IF ~InTag(match.all_tag_str, first) /\ ~InTag(match.all_tag_str, last)
        THEN {CutPars(html)}
        ELSE {<<>>, CutPars(html)}

\* pars[orig_ix].replace_with(new_tags[ix]) for every matched index, then
\* raw_item.set_content(str(soup))
ReplaceWith(pars, matched_tag_indices, tags) ==
    [i \in DOMAIN pars |->
        IF \E ix \in DOMAIN matched_tag_indices : matched_tag_indices[ix] = i - 1
        THEN tags[CHOOSE ix \in DOMAIN matched_tag_indices :
                      matched_tag_indices[ix] = i - 1]
        ELSE pars[i]]

\* one pass of for match in matches.  process_book passes a highlight_color
\* keyword that create_highlighted_tags of utils.py does not take; the
\* function of utils.py is what acts here, with its own HIGHLIGHT_HEAD.  No
\* exception is caught: one leaves the loop and process_book.
ApplyHighlight ==
    /\ pc = "apply"
    /\ tag_ix < Len(matches)
    /\ LET match == At(matches, tag_ix)
           made == create_highlighted_tags(match)
       IN  /\ new_tags' = Append(new_tags, made)
           /\ IF made.raised # None
              THEN /\ pc' = "raised"
                   /\ ret' = made.raised
                   /\ item_content' = item_content
              ELSE \E tags \in FindAllP(match, made.html) :
                      IF Len(tags) < Len(match.matched_tag_indices)
                      THEN /\ pc' = "raised"
                           /\ ret' = "IndexError"
                           /\ item_content' = item_content
                      ELSE /\ pc' = pc
                           /\ ret' = ret
                           /\ item_content' =
                                [item_content EXCEPT ![match.spine_ix + 1] =
                                    ReplaceWith(@, match.matched_tag_indices, tags)]
    /\ tag_ix' = tag_ix + 1
    /\ UNCHANGED <<args, parsed_clips, parsed_notes, note_ix, log, spine,
                   clippings, clip_ix, matches>>

\* the book is written and "Done - K/M highlights applied." is printed
Done ==
    /\ pc = "apply"
    /\ tag_ix = Len(matches)
    /\ pc' = "done"
    /\ ret' = [applied |-> Len(matches), of |-> Len(clippings)]
    /\ UNCHANGED <<args, parsed_clips, parsed_notes, note_ix, log, spine,
                   item_content, clippings, clip_ix, matches, tag_ix, new_tags>>

Next == FindMatch \/ ReturnMatches \/ ApplyHighlight \/ Done

Spec == Init /\ [][Next]_vars

(***************************************************************************)
(* C1                                                                      *)
(***************************************************************************)
RECURSIVE IsSubsequence(_, _)
IsSubsequence(t, w) ==
    IF t = <<>> THEN TRUE
    ELSE IF w = <<>> THEN FALSE
    ELSE IF Head(t) = Head(w) THEN IsSubsequence(Tail(t), Tail(w))
    ELSE IsSubsequence(t, Tail(w))

\* the windows of s, as 1-based <<first, last>>, that contain t in order
WindowsOf(s, t) ==
    {w \in (1..Len(s)) \X (1..Len(s)) :
        w[1] <= w[2] /\ IsSubsequence(t, SubSeq(s, w[1], w[2]))}

LeftmostShortest(s, t) ==
    CHOOSE w \in WindowsOf(s, t) :
        \A v \in WindowsOf(s, t) :
            \/ v[2] - v[1] > w[2] - w[1]
            \/ v[2] - v[1] = w[2] - w[1] /\ v[1] >= w[1]

\* C1: min_window_subsequence(raw, target), target non-empty, returns the
\* leftmost among the shortest substrings of raw that contain target as an
\* ordered subsequence, and returns the empty string exactly when target is
\* not a subsequence of raw.
C1_LeftmostShortestWindow ==
    pc = "returned" /\ args.t # <<>> =>
        IF IsSubsequence(args.t, args.s)
        THEN LET w == LeftmostShortest(args.s, args.t) IN
             /\ ret = SubSeq(args.s, w[1], w[2])
             /\ ret # <<>>
        ELSE ret = <<>>

\* a found window that is neither the first nor the only window of its length
C1_Witness ==
    /\ pc = "returned"
    /\ ret # <<>>
    /\ Len(ret) < Len(args.s)
    /\ Len(args.t) >= 2
    /\ \E v \in WindowsOf(args.s, args.t) :
          /\ v[2] - v[1] + 1 = Len(ret)
          /\ v[1] > LeftmostShortest(args.s, args.t)[1]
    /\ \E v \in WindowsOf(args.s, args.t) : v[2] - v[1] + 1 > Len(ret)

\* the not-found side: a target whose characters all occur in raw, out of order
C1_WitnessNotFound ==
    /\ pc = "returned"
    /\ ret = <<>>
    /\ \A q \in 1..Len(args.t) : \E p \in 1..Len(args.s) : args.s[p] = args.t[q]

(***************************************************************************)
(* C3                                                                      *)
(***************************************************************************)
\* " ".join(texts)
RECURSIVE SpaceJoin(_)
SpaceJoin(texts) ==
    IF texts = <<>> THEN <<>>
    ELSE IF Len(texts) = 1 THEN texts[1]
    ELSE texts[1] \o <<" ">> \o SpaceJoin(Tail(texts))

\* where block i (from 0) starts in " ".join(texts)
RECURSIVE OffsetOf(_, _)
OffsetOf(texts, i) ==
    IF i = 0 THEN 0 ELSE OffsetOf(texts, i - 1) + Len(At(texts, i - 1)) + 1

NormTexts == [i \in DOMAIN args.elements |-> normalize_str(args.elements[i])]

\* the blocks of texts whose half-open range in joined meets [start, stop)
Overlapping(texts, start, stop) ==
    {i \in 0..(Len(texts) - 1) :
        LET off == OffsetOf(texts, i) IN
        Max(off, start) < Min(off + Len(At(texts, i)), stop)}

\* C3: for a non-empty normalized query that is a substring of the blocks'
\* normalized texts joined with single spaces, find_text_spans returns a
\* non-empty, ascending, gap-free list of block indices, exactly the blocks
\* whose range meets the first occurrence of the query, and the join of the
\* returned blocks' texts contains the query; when the query is not a
\* substring of the join it returns None.
C3_SpansCoverFirstOccurrence ==
    pc = "returned" /\ "elements" \in DOMAIN args =>
        LET texts == NormTexts
            c == normalize_str(args.query)
            joined == SpaceJoin(texts)
            start == Find(joined, c)
        IN  c # <<>> =>
            IF start # -1
            THEN /\ ret # None
                 /\ ret # <<>>
                 /\ \A n \in 1..(Len(ret) - 1) : ret[n + 1] = ret[n] + 1
                 /\ {ret[n] : n \in 1..Len(ret)}
                        = Overlapping(texts, start, start + Len(c))
                 /\ Contains(SpaceJoin([n \in 1..Len(ret) |-> At(texts, ret[n])]), c)
            ELSE ret = None

\* a query found across two blocks, after a block that is skipped
C3_Witness ==
    /\ pc = "returned"
    /\ "elements" \in DOMAIN args
    /\ ret # None
    /\ Len(ret) >= 2
    /\ ret[1] > 0
    /\ \E i \in DOMAIN args.elements : args.elements[i] # NormTexts[i]

(***************************************************************************)
(* C6, C7, C8                                                              *)
(***************************************************************************)
\* the highlights that qualify for a note
Qualifying(note) ==
    {h \in DOMAIN parsed_clips :
        /\ parsed_clips[h].title = note.title
        /\ parsed_clips[h].location[2] = note.location[1]}

\* C6: a note is attached to a highlight of the latest timestamp among the
\* highlights of its title whose location end is its location; no older
\* qualifying highlight and no highlight of another title or another end
\* receives it.
C6_NoteGoesToMostRecent ==
    [][note_ix' = note_ix + 1 =>
        LET note == parsed_notes[note_ix']
            Q == Qualifying(note)
            received == {h \in DOMAIN parsed_clips :
                            parsed_clips'[h] # parsed_clips[h]}
        IN  /\ \A h \in received :
                  /\ h \in Q
                  /\ parsed_clips'[h].note = note.content
                  /\ \A g \in Q : parsed_clips[g].date <= parsed_clips[h].date
            /\ Q # {} => Cardinality(received) = 1]_vars

\* a note sits on a highlight while an older highlight of the same title and
\* end was left without it
C6_Witness ==
    \E h, g \in DOMAIN parsed_clips :
        /\ parsed_clips[h].note # None
        /\ parsed_clips[g].note = None
        /\ parsed_clips[g].title = parsed_clips[h].title
        /\ parsed_clips[g].location[2] = parsed_clips[h].location[2]
        /\ parsed_clips[g].date < parsed_clips[h].date
        /\ g < h

\* C7: a note has an unmatched line in the log exactly when no highlight
\* qualifies for it, so the log holds as many lines as there are processed
\* notes without a qualifying highlight.
C7_UnmatchedIffNoneQualifies ==
    pc \in {"parse_txt_clippings", "returned"} /\ "all_clips" \in DOMAIN args =>
        /\ \A n \in 1..note_ix :
              (\E l \in DOMAIN log : log[l].content = parsed_notes[n].content)
                  <=> Qualifying(parsed_notes[n]) = {}
        /\ Len(log) = Cardinality({n \in 1..note_ix :
                                      Qualifying(parsed_notes[n]) = {}})

\* C8: a highlight's note, once set, is never assigned again.
C8_NoteSetAtMostOnce ==
    [][\A h \in DOMAIN parsed_clips :
          parsed_clips[h].note # None =>
              parsed_clips'[h].note = parsed_clips[h].note]_vars

(***************************************************************************)
(* C2, C4, C5, C9, C10                                                     *)
(***************************************************************************)
\* the characters of raw[a..b] that lie outside every tag
RECURSIVE TextOf(_, _, _)
TextOf(raw, a, b) ==
    IF a > b THEN <<>>
    ELSE (IF InTag(raw, a) THEN <<>> ELSE <<At(raw, a)>>) \o TextOf(raw, a + 1, b)

\* C2: the window of every Match is a slice of its raw span that starts and
\* ends outside the tags and whose characters outside the tags contain the
\* highlight's content, spaces removed, as an ordered subsequence.
C2_WindowMatchesTextOnly ==
    \A n \in DOMAIN matches :
        LET raw == matches[n].all_tag_str
            window == matches[n].pre_highlight
        IN  /\ window # <<>>
            /\ \E a \in 0..(Len(raw) - 1) :
                  LET b == a + Len(window) - 1 IN
                  /\ IsSubstringAt(window, raw, a)
                  /\ ~InTag(raw, a)
                  /\ ~InTag(raw, b)
                  /\ IsSubsequence(RemoveSpaces(matches[n].clip.content),
                                   TextOf(raw, a, b))

\* C4: on a Match of find_clip_in_spine the count check of
\* create_highlighted_tags never fails.
C4_HeadCountEqualsTailCount ==
    \A n \in DOMAIN new_tags : new_tags[n].raised # "AssertionError"

\* the window holds the end of one paragraph and the start of the next
Straddles(window) == Contains(window, <<">", "<">>)

\* the tokens cut after every </p>
RECURSIVE BlocksOf(_, _)
BlocksOf(tokens, block) ==
    IF tokens = <<>> THEN (IF block = <<>> THEN <<>> ELSE <<block>>)
    ELSE IF Head(tokens) = CloseP
         THEN <<Append(block, Head(tokens))>> \o BlocksOf(Tail(tokens), <<>>)
         ELSE BlocksOf(Tail(tokens), Append(block, Head(tokens)))

OneMarkerPair(block) ==
    \E h, t \in DOMAIN block :
        /\ h < t
        /\ block[h] = HIGHLIGHT_HEAD
        /\ block[t] = HIGHLIGHT_TAIL
        /\ \A o \in DOMAIN block \ {h, t} :
              block[o] # HIGHLIGHT_HEAD /\ block[o] # HIGHLIGHT_TAIL

\* C5: for a window that straddles two or more paragraphs,
\* create_highlighted_tags builds a token sequence in which every paragraph
\* of the window holds exactly one marker-open followed by one marker-close.
C5_EveryParagraphHasOnePair ==
    \A n \in DOMAIN new_tags :
        Straddles(matches[n].pre_highlight) =>
            /\ new_tags[n].raised = None
            /\ \A k \in DOMAIN BlocksOf(new_tags[n].html_tags, <<>>) :
                  OneMarkerPair(BlocksOf(new_tags[n].html_tags, <<>>)[k])

\* the aligner is reached for the clip and returns not-found
AlignerFails(clip) ==
    LET located == LocateRawSpan(clip, spine, 0) IN
    /\ located # NoMatch
    /\ min_window_subsequence(located.all_tag_str, RemoveSpaces(clip.content)) = <<>>

\* C9: a highlight whose content the aligner cannot reconstruct in the
\* located raw span is a miss: its log line is the not-found one and no
\* Match of it is among the matches.
C9_AlignerFailureIsAMiss ==
    \A c \in 1..clip_ix :
        AlignerFails(clippings[c]) =>
            /\ ~log[c].found
            /\ \A n \in DOMAIN matches : matches[n].clip # clippings[c]

\* the documents (from 0) whose blocks' normalized texts, joined with single
\* spaces, hold the normalized content as a substring
DocsHolding(clip) ==
    {d \in 0..(Len(spine) - 1) :
        Contains(SpaceJoin([i \in DOMAIN At(spine, d) |->
                               normalize_str(At(spine, d)[i])]),
                 normalize_str(clip.content))}

\* C10: a highlight is found in the lowest document that holds its
\* normalized content as an exact substring, and is a miss only when no
\* document holds it.
C10_FirstDocumentHoldingContent ==
    \A c \in 1..clip_ix :
        LET holding == DocsHolding(clippings[c]) IN
        IF log[c].found
        THEN /\ log[c].spine_ix \in holding
             /\ \A d \in holding : log[c].spine_ix <= d
        ELSE holding = {}

(***************************************************************************)
(* C11, C12, C13, C14                                                      *)
(***************************************************************************)
\* how many times tag occurs in the content of all documents
OccurrencesIn(html, tag) ==
    Cardinality({p \in 0..Len(html) : IsSubstringAt(tag, html, p)})

RECURSIVE SumOver(_, _)
SumOver(counts, n) == IF n = 0 THEN 0 ELSE counts[n] + SumOver(counts, n - 1)

Occurrences(tag) ==
    LET per_doc == [d \in DOMAIN item_content |->
                       OccurrencesIn(Join(item_content[d]), tag)]
    IN  SumOver(per_doc, Len(per_doc))

\* C11: process_book does not leave by an exception, and when it is done
\* the report is K/M for the K matches of the M highlights and the
\* documents hold exactly K marker-opens and K marker-closes.
C11_ReportAndMarkerPairs ==
    /\ pc # "raised"
    /\ pc = "done" =>
          /\ ret = [applied |-> Len(matches), of |-> Len(clippings)]
          /\ Occurrences(HIGHLIGHT_HEAD) = Len(matches)
          /\ Occurrences(HIGHLIGHT_TAIL) = Len(matches)

\* C12: a failed head_count == tail_count check for one match does not end
\* process_book: the loop goes on, every match is handed to the injection
\* and the summary is printed; nothing is written for the failed match.
C12_FailedCheckAbortsOneAnnotation ==
    \A n \in DOMAIN new_tags :
        new_tags[n].raised = "AssertionError" =>
            /\ pc \in {"apply", "done"}
            /\ pc = "done" =>
                  /\ Len(new_tags) = Len(matches)
                  /\ ret = [applied |-> Len(matches), of |-> Len(clippings)]

\* the positions, counted over the characters outside the tags, of the
\* text of a paragraph that lies between a marker-open and its marker-close
Marked(par) ==
    LET heads == {p \in 0..Len(par) : IsSubstringAt(HIGHLIGHT_HEAD, par, p)}
        tails == {p \in 0..Len(par) : IsSubstringAt(HIGHLIGHT_TAIL, par, p)}
        text == {p \in 0..(Len(par) - 1) : ~InTag(par, p)}
    IN  {Cardinality({r \in text : r < q}) :
            q \in {p \in text :
                     \E h \in heads :
                        /\ h < p
                        /\ \A t \in tails : ~(h < t /\ t < p)}}

\* C13: the injection of a match changes only the blocks of its document
\* that the match located, and every character that an earlier injection
\* has put between markers is still between markers after it.
C13_LaterMatchKeepsEarlierMarkers ==
    [][pc = "apply" /\ tag_ix < Len(matches) =>
          LET match == At(matches, tag_ix) IN
          \A d \in DOMAIN item_content : \A i \in DOMAIN item_content[d] :
              /\ Marked(item_content[d][i]) \subseteq Marked(item_content'[d][i])
              /\ (d - 1 # match.spine_ix
                    \/ \A ix \in DOMAIN match.matched_tag_indices :
                          match.matched_tag_indices[ix] # i - 1)
                    => item_content'[d][i] = item_content[d][i]]_vars

\* C14: for a Match with a non-empty window, the split of the raw span
\* around the window does not fail, however often the window's text occurs
\* in the raw span, and what create_highlighted_tags returns is the raw span
\* with the marked tokens in the place of the occurrence that the aligner
\* located (the leftmost one).
C14_SplitAroundLocatedWindow ==
    \A n \in DOMAIN new_tags :
        LET raw == matches[n].all_tag_str
            window == matches[n].pre_highlight
            located == Find(raw, window)
        IN  window # <<>> =>
                /\ new_tags[n].raised \notin {"ValueError: unpack",
                                              "ValueError: empty separator"}
                /\ new_tags[n].raised = None =>
                      new_tags[n].html =
                          Slice(raw, 0, located)
                              \o Join(new_tags[n].html_tags)
                              \o Slice(raw, located + Len(window), Len(raw))

====
